---- MODULE Spec2Model ----
(***************************************************************************)
(* Model of SqEfficiency (src/classes/sqefficiency.py): construction,      *)
(* validation, the bounded fit and the generated curve; of the constructor  *)
(* of Gain (src/gain.py); and of the visibility page                        *)
(* (src/tabs/visibility_page.py).                                           *)
(*                                                                          *)
(* Fixed point units: power and P_th in 1e-3 mW, frequencies in 0.1 MHz,    *)
(* eta and linear variances in 1e-3, angles in mrad, decibels in whole dB   *)
(* (rounded down).  IEEE values are records: finite, +-inf or nan.          *)
(***************************************************************************)
EXTENDS Integers, Sequences, FiniteSets, TLC

VARIABLES args, pc, err, power, sq_data, asq_data, phase_noise, omega, gamma,
          P_th, initial_guess, param_bounds, result, eta_fit, P_th_fit,
          phase_noise_fit, power_fit, sq_fit, asq_fit, fit_calls, solves,
          gain, page

vars == <<args, pc, err, power, sq_data, asq_data, phase_noise, omega, gamma,
          P_th, initial_guess, param_bounds, result, eta_fit, P_th_fit,
          phase_noise_fit, power_fit, sq_fit, asq_fit, fit_calls, solves,
          gain, page>>

(***************************************************************************)
(* Bounds of the model                                                      *)
(***************************************************************************)
\* longest measurement array drawn as an input
MaxLen == 2
\* points of the generated curve (np.linspace(..., 1000) in the source)
NumPoints == 5

(***************************************************************************)
(* IEEE double values                                                       *)
(***************************************************************************)
Fin(n) == [k |-> "fin", v |-> n]
PosInf == [k |-> "inf", v |-> 1]
NegInf == [k |-> "inf", v |-> -1]
NaN == [k |-> "nan", v |-> 0]

IsFinite(x) == x.k = "fin"

\* x + y
FAdd(x, y) ==
    IF x.k = "nan" \/ y.k = "nan" THEN NaN
    ELSE IF x.k = "inf" /\ y.k = "inf" THEN (IF x.v = y.v THEN x ELSE NaN)
    ELSE IF x.k = "inf" THEN x
    ELSE IF y.k = "inf" THEN y
    ELSE Fin(x.v + y.v)

\* x * w / 1000 for a finite weight w >= 0 in 1e-3 (a squared cosine or sine)
FScale(x, w) ==
    IF x.k = "nan" THEN NaN
    ELSE IF x.k = "inf" THEN (IF w = 0 THEN NaN ELSE x)
    ELSE Fin((x.v \div 1000) * w + ((x.v % 1000) * w) \div 1000)

\* x - d for a finite d
FSub(x, d) == IF x.k = "fin" THEN Fin(x.v - d) ELSE x

\* n / d of numpy for finite n >= 0, d >= 0 (in 1e-3)
FDiv(n, d) ==
    IF d = 0 THEN (IF n = 0 THEN NaN ELSE PosInf)
    ELSE Fin(n \div d)

(***************************************************************************)
(* Elementary functions                                                     *)
(***************************************************************************)
RECURSIVE IsqrtIn(_, _, _)
\* the r in lo..hi with r*r <= n < (r+1)*(r+1), by bisection
IsqrtIn(n, lo, hi) ==
    IF lo >= hi THEN lo
    ELSE LET mid == (lo + hi + 1) \div 2
         IN IF mid * mid <= n THEN IsqrtIn(n, mid, hi) ELSE IsqrtIn(n, lo, mid - 1)

\* floor of the square root of n, 0 <= n < 2^30
Isqrt(n) == IsqrtIn(n, 0, 32767)

\* floor(10000 * num / den) for num >= 0, den > 0, two decimal digits at a time
Ratio4(num, den) ==
    LET r1 == (num % den) * 100
        r2 == (r1 % den) * 100
    IN (num \div den) * 10000 + (r1 \div den) * 100 + (r2 \div den)

\* 1000 * 10^(j/10) for j = 0..9
DecibelSteps == <<1000, 1259, 1585, 1995, 2512, 3162, 3981, 5012, 6310, 7943>>

RECURSIVE Log10dB(_)
\* floor(10 * log10(v / 1000)) for v > 0
Log10dB(v) ==
    IF v < 1000 THEN Log10dB(v * 10) - 10
    ELSE IF v >= 10000 THEN Log10dB(v \div 10) + 10
    ELSE (CHOOSE j \in 1..10 : DecibelSteps[j] <= v
                               /\ (j = 10 \/ v < DecibelSteps[j + 1])) - 1

\* 10 * np.log10(x)
ToDB(x) ==
    IF x.k = "nan" THEN NaN
    ELSE IF x.k = "inf" THEN (IF x.v > 0 THEN PosInf ELSE NaN)
    ELSE IF x.v < 0 THEN NaN
    ELSE IF x.v = 0 THEN NegInf
    ELSE Fin(Log10dB(x.v))

\* 1000 * cos(e / 1000)
Cos(e) ==
    LET u == (e * e) \div 1000
        u2 == (u * u) \div 1000
        u3 == (u2 * u) \div 1000
    IN 1000 - (u \div 2) + (u2 \div 24) - (u3 \div 720)

\* 1000 * sin(e / 1000)
Sin(e) ==
    LET u == (e * e) \div 1000
        e3 == (e * u) \div 1000
        e5 == (e3 * u) \div 1000
    IN e - (e3 \div 6) + (e5 \div 120)

\* np.cos(e)**2 and np.sin(e)**2
Cos2(e) == (Cos(e) * Cos(e)) \div 1000
Sin2(e) == (Sin(e) * Sin(e)) \div 1000

(***************************************************************************)
(* Forward model: SqEfficiency.sq_asq_model_noise                           *)
(***************************************************************************)
Abs(n) == IF n < 0 THEN -n ELSE n

\* c = np.sqrt(power / P_th) in 1e-2, for power = pnum / pden (pden > 0)
Coupling(pnum, pden, Pth) ==
    IF Pth = 0 THEN (IF pnum = 0 THEN NaN ELSE IF pnum > 0 THEN PosInf ELSE NaN)
    ELSE IF pnum = 0 THEN Fin(0)
    ELSE IF (pnum > 0) # (Pth > 0) THEN NaN
    ELSE Fin(Isqrt(Ratio4(Abs(pnum), pden * Abs(Pth))))

\* (self.omega / self.gamma)**2 in 1e-4, for gamma # 0
DetuningSq(om, ga) == (om * om * 10000) \div (ga * ga)

\* line 160 with the efficiency term added, not subtracted
SqLinPlus(c, eta, om, ga) ==
    IF ~IsFinite(c) THEN NaN
    ELSE Fin(1000 + ((eta * 4 * c.v * 100)
                     \div ((100 + c.v) * (100 + c.v) + DetuningSq(om, ga))))

\* sq of line 160, linear
SqLin(c, eta, om, ga) ==
    IF ~IsFinite(c) THEN NaN
    ELSE Fin(1000 - ((eta * 4 * c.v * 100)
                     \div ((100 + c.v) * (100 + c.v) + DetuningSq(om, ga))))

\* line 161 without the (omega / gamma)**2 term in the denominator
AsqLinNoDetuning(c, eta, om, ga) ==
    IF ~IsFinite(c) THEN NaN
    ELSE FAdd(Fin(1000), FDiv(eta * 4 * c.v * 100, (100 - c.v) * (100 - c.v)))

\* asq of line 161, linear: a pole where (1 - c)**2 + (omega/gamma)**2 = 0
AsqLin(c, eta, om, ga) ==
    IF ~IsFinite(c) THEN NaN
    ELSE FAdd(Fin(1000), FDiv(eta * 4 * c.v * 100,
                              (100 - c.v) * (100 - c.v) + DetuningSq(om, ga)))

\* the phase-noise branch with the cosine and sine weights exchanged
MixBothSwapped(sq, asq, eps) ==
    <<ToDB(FAdd(FScale(sq, Sin2(eps)), FScale(asq, Cos2(eps)))),
      ToDB(FAdd(FScale(asq, Sin2(eps)), FScale(sq, Cos2(eps))))>>

\* the dB pair with the phase-noise branch (lines 164-165): both right-hand
\* sides read the linear sq and asq
MixBoth(sq, asq, eps) ==
    <<ToDB(FAdd(FScale(sq, Cos2(eps)), FScale(asq, Sin2(eps)))),
      ToDB(FAdd(FScale(asq, Cos2(eps)), FScale(sq, Sin2(eps))))>>

\* the dB pair of the else branch (lines 167-168)
PlainBoth(sq, asq) == <<ToDB(sq), ToDB(asq)>>

\* sq_asq_model_noise at one power value pnum / pden; flag is self.phase_noise
ModelPoint(pnum, pden, eta, Pth, eps, om, ga, flag) ==
    LET c == Coupling(pnum, pden, Pth)
        sq == SqLin(c, eta, om, ga)
        asq == AsqLin(c, eta, om, ga)
    IN IF flag THEN MixBoth(sq, asq, eps) ELSE PlainBoth(sq, asq)

\* sq_asq_model_noise on an array of powers pw[i] / pden: <<sq array, asq array>>
sq_asq_model_noise(pw, pden, eta, Pth, eps, om, ga, flag) ==
    <<[i \in 1..Len(pw) |-> ModelPoint(pw[i], pden, eta, Pth, eps, om, ga, flag)[1]],
      [i \in 1..Len(pw) |-> ModelPoint(pw[i], pden, eta, Pth, eps, om, ga, flag)[2]]>>

(***************************************************************************)
(* Residuals: combined_residuals_noise and combined_residuals_noise_no_phase*)
(***************************************************************************)
\* the residuals with the antisqueezing half first
ConcatenateAsqFirst(m, sq_d, asq_d) ==
    [i \in 1..Len(m[2]) |-> FSub(m[2][i], asq_d[i])]
    \o [i \in 1..Len(m[1]) |-> FSub(m[1][i], sq_d[i])]

\* np.concatenate((sq - self.sq_data, asq - self.asq_data))
Concatenate(m, sq_d, asq_d) ==
    [i \in 1..Len(m[1]) |-> FSub(m[1][i], sq_d[i])]
    \o [i \in 1..Len(m[2]) |-> FSub(m[2][i], asq_d[i])]

\* params = (eta, P_th, phase_noise)
combined_residuals_noise(params, pw, sq_d, asq_d, om, ga, flag) ==
    Concatenate(sq_asq_model_noise(pw, 1, params[1], params[2], params[3], om, ga, flag),
                sq_d, asq_d)

\* params = (eta, P_th); the phase angle is the literal 0
combined_residuals_noise_no_phase(params, pw, sq_d, asq_d, om, ga, flag) ==
    Concatenate(sq_asq_model_noise(pw, 1, params[1], params[2], 0, om, ga, flag),
                sq_d, asq_d)

\* the function handed to curve_fit (the lambda of lines 125-126)
FitFunction(params, pw, sq_d, asq_d, om, ga, flag) ==
    IF flag THEN combined_residuals_noise(params, pw, sq_d, asq_d, om, ga, flag)
    ELSE combined_residuals_noise_no_phase(params, pw, sq_d, asq_d, om, ga, flag)

AllFinite(r) == \A i \in 1..Len(r) : IsFinite(r[i])

(***************************************************************************)
(* Arguments of the constructor                                             *)
(***************************************************************************)
SeqsUpTo(S, n) == UNION {[1..m -> S] : m \in 0..n}

\* pump powers, squeezing and antisqueezing readings offered as array entries
PowerVals == {0, 10000}
SqVals == {-2}
AsqVals == {4}

\* a numpy array, or a Python list (which is not an np.ndarray)
ArrayArgs(S) == {[kind |-> "ndarray", val |-> s] : s \in SeqsUpTo(S, MaxLen)}
                \cup {[kind |-> "list", val |-> <<>>]}

\* True, False, or a value that is no bool
BoolArgs == {[kind |-> "bool", val |-> TRUE], [kind |-> "bool", val |-> FALSE],
             [kind |-> "str", val |-> TRUE]}

FloatArg(n) == [kind |-> "float", val |-> n]
IntArg(n) == [kind |-> "int", val |-> n]
StrArg == [kind |-> "str", val |-> 0]

\* detection_frequency and decay_rate_cavity, in 0.1 MHz
FrequencyArgs == {StrArg, FloatArg(-10), IntArg(0), FloatArg(50)}
DecayRateArgs == {StrArg, FloatArg(-10), IntArg(0), FloatArg(203)}

StrVal(t) == [kind |-> "str", s |-> t, v |-> 0]
NumVal(n) == [kind |-> "num", s |-> "", v |-> n]

\* P_th: the default "", text typed into the page, or a number
PthArgs == {StrVal(""), StrVal("0"), StrVal("abc"), StrVal("5"),
            NumVal(0), NumVal(-5000), NumVal(40000)}

\* Python truth value of P_th: a non-empty string, a non-zero number
Truthy(p) == IF p.kind = "str" THEN p.s # "" ELSE p.v # 0

\* float(P_th): the strings that parse, and their value
FloatParses(p) == p.kind = "num" \/ p.s \in {"0", "5"}
FloatOf(p) == IF p.kind = "num" THEN p.v
              ELSE IF p.s = "5" THEN 5000
              ELSE 0

None == <<>>
Some(x) == <<x>>
NoError == [type |-> "", msg |-> ""]
Error(t, m) == [type |-> t, msg |-> m]

(***************************************************************************)
(* Validators                                                               *)
(***************************************************************************)
\* _validate_input(data, np.ndarray, name): the isinstance test
validate_input(a) == a.kind = "ndarray"

\* _validate_boolean(value, name)
validate_boolean(a) == a.kind = "bool"

\* _validate_float(value, name, min_value): "" when the value is accepted,
\* else which check raised
validate_float(a, min_value) ==
    IF a.kind \notin {"float", "int"} THEN "must be of type float"
    ELSE IF a.val < min_value THEN "must be greater than or equal to 0"
    ELSE ""

(***************************************************************************)
(* The constructor, step by step                                            *)
(***************************************************************************)
\* a Gain object before __init__ has run: no attribute is set
NoGain ==
    [args |-> None, pc |-> "idle", err |-> NoError, P |-> None, V |-> None,
     V0 |-> None, G |-> None, log_G |-> None, P_th_fitted |-> None, fits |-> 0]

\* the visibility page before visibility() has run: no local is bound
NoPage ==
    [inputs |-> None, pc |-> "idle", err |-> NoError, I_0 |-> None, I_1 |-> None,
     I_2 |-> None, I_max |-> None, I_min |-> None, beta |-> None,
     valid_input |-> None, errors |-> {}, latex |-> None]

Init ==
    /\ gain = NoGain /\ page = NoPage
    /\ args \in [power : ArrayArgs(PowerVals), sq_data : ArrayArgs(SqVals),
                 asq_data : ArrayArgs(AsqVals), phase_noise : BoolArgs,
                 detection_frequency : FrequencyArgs,
                 decay_rate_cavity : DecayRateArgs, P_th : PthArgs]
    /\ pc = "validate"
    /\ err = NoError
    /\ power = None /\ sq_data = None /\ asq_data = None
    /\ phase_noise = None /\ omega = None /\ gamma = None /\ P_th = None
    /\ initial_guess = None /\ param_bounds = None /\ result = None
    /\ eta_fit = None /\ P_th_fit = None /\ phase_noise_fit = None
    /\ power_fit = None /\ sq_fit = None /\ asq_fit = None
    /\ fit_calls = 0 /\ solves = 0

FitUnchanged == UNCHANGED <<initial_guess, param_bounds, result, eta_fit, P_th_fit,
                            phase_noise_fit, power_fit, sq_fit, asq_fit, solves>>

\* how many of the six validations of lines 28-33 pass before one raises
ValidatedPrefix(a) ==
    IF ~validate_input(a.power) THEN 0
    ELSE IF ~validate_input(a.sq_data) THEN 1
    ELSE IF ~validate_input(a.asq_data) THEN 2
    ELSE IF ~validate_boolean(a.phase_noise) THEN 3
    ELSE IF validate_float(a.detection_frequency, 0) # "" THEN 4
    ELSE IF validate_float(a.decay_rate_cavity, 0) # "" THEN 5
    ELSE 6

\* the ValueError of the validation that raises
ValidationError(a) ==
    LET n == ValidatedPrefix(a)
    IN IF n = 0 THEN Error("ValueError", "Power must be of type ndarray")
       ELSE IF n = 1 THEN Error("ValueError", "Squeezing Data must be of type ndarray")
       ELSE IF n = 2 THEN Error("ValueError", "Antisqueezing Data must be of type ndarray")
       ELSE IF n = 3 THEN Error("ValueError", "Phase Noise must be of type bool")
       ELSE IF n = 4 THEN Error("ValueError", validate_float(a.detection_frequency, 0))
       ELSE IF n = 5 THEN Error("ValueError", validate_float(a.decay_rate_cavity, 0))
       ELSE NoError

\* lines 28-34: each field is assigned as its validation passes
Validate ==
    /\ pc = "validate"
    /\ UNCHANGED <<gain, page>>
    /\ LET n == ValidatedPrefix(args)
       IN /\ power' = IF n >= 1 THEN Some(args.power.val) ELSE None
          /\ sq_data' = IF n >= 2 THEN Some(args.sq_data.val) ELSE None
          /\ asq_data' = IF n >= 3 THEN Some(args.asq_data.val) ELSE None
          /\ phase_noise' = IF n >= 4 THEN Some(args.phase_noise.val) ELSE None
          /\ omega' = IF n >= 5 THEN Some(args.detection_frequency.val) ELSE None
          /\ gamma' = IF n >= 6 THEN Some(args.decay_rate_cavity.val) ELSE None
          /\ err' = ValidationError(args)
          /\ pc' = IF n = 6 THEN "threshold" ELSE "error"
    /\ UNCHANGED <<args, P_th, fit_calls>>
    /\ FitUnchanged

\* lines 35-38: a truthy P_th is converted with float(), any other is kept
SetThreshold ==
    /\ pc = "threshold"
    /\ UNCHANGED <<gain, page>>
    /\ IF Truthy(args.P_th)
       THEN IF FloatParses(args.P_th)
            THEN /\ P_th' = Some(NumVal(FloatOf(args.P_th)))
                 /\ pc' = "lengths"
                 /\ err' = err
            ELSE /\ P_th' = P_th
                 /\ pc' = "error"
                 /\ err' = Error("ValueError", "could not convert string to float")
       ELSE /\ P_th' = Some(args.P_th)
            /\ pc' = "lengths"
            /\ err' = err
    /\ UNCHANGED <<args, power, sq_data, asq_data, phase_noise, omega, gamma, fit_calls>>
    /\ FitUnchanged

MsgAtLeast2 == "It is required at least 2 squeezing and antisqueezing data"
MsgSameNumber == "You should have the same number of points in squeezing data, antisqueezing data and pump power"
MsgAtLeast1 == "It is required at least 1 squeezing and antisqueezing data"

\* the chain without the comparison against the power array
LengthErrorNoPower(pn, np, ns, na) ==
    IF pn /\ ns + na < 3 THEN MsgAtLeast2
    ELSE IF ns # na THEN MsgSameNumber
    ELSE IF ~pn /\ ns + na < 1 THEN MsgAtLeast1
    ELSE ""

\* the chain with the same-number test moved first
LengthErrorSameFirst(pn, np, ns, na) ==
    IF ns # na \/ ns # np THEN MsgSameNumber
    ELSE IF pn /\ ns + na < 3 THEN MsgAtLeast2
    ELSE IF ~pn /\ ns + na < 1 THEN MsgAtLeast1
    ELSE ""

\* the chain asking for 2 combined points, not 3, with phase noise
LengthErrorTwoPoints(pn, np, ns, na) ==
    IF pn /\ ns + na < 2 THEN MsgAtLeast2
    ELSE IF ns # na \/ ns # np THEN MsgSameNumber
    ELSE IF ~pn /\ ns + na < 1 THEN MsgAtLeast1
    ELSE ""

\* the if / elif chain of lines 40-45: the KeyError message, "" when none raises
LengthError(pn, np, ns, na) ==
    IF pn /\ ns + na < 3 THEN MsgAtLeast2
    ELSE IF ns # na \/ ns # np THEN MsgSameNumber
    ELSE IF ~pn /\ ns + na < 1 THEN MsgAtLeast1
    ELSE ""

\* lines 40-48: raise, or call fit_curve_noise
CheckLengths ==
    /\ pc = "lengths"
    /\ UNCHANGED <<gain, page>>
    /\ LET m == LengthError(phase_noise[1], Len(power[1]), Len(sq_data[1]),
                            Len(asq_data[1]))
       IN IF m # ""
          THEN /\ err' = Error("KeyError", m)
               /\ pc' = "error"
               /\ fit_calls' = fit_calls
          ELSE /\ err' = err
               /\ pc' = "select"
               /\ fit_calls' = fit_calls + 1
    /\ UNCHANGED <<args, power, sq_data, asq_data, phase_noise, omega, gamma, P_th>>
    /\ FitUnchanged

(***************************************************************************)
(* fit_curve_noise                                                          *)
(***************************************************************************)
\* the numbers of lines 117-121
Eta0 == 800
Pth0 == 50000
Eps0 == 200
EtaMax == 1000
QuarterPi == 785
PinTol == 1

\* initial_guess of line 117 or 120; pth is self.P_th, pn is self.phase_noise
InitialGuess(pth, pn) ==
    IF ~Truthy(pth)
    THEN (IF pn THEN <<Eta0, Pth0, Eps0>> ELSE <<Eta0, Pth0>>)
    ELSE (IF pn THEN <<Eta0, pth.v, Eps0>> ELSE <<Eta0, pth.v>>)

\* lower bounds that leave P_th free below a pinned threshold
LowerBoundsUnpinned(pth, pn) ==
    IF pn THEN <<Fin(0), Fin(0), Fin(0)>> ELSE <<Fin(0), Fin(0)>>

\* lower bounds of line 118 or 121
LowerBounds(pth, pn) ==
    IF ~Truthy(pth)
    THEN (IF pn THEN <<Fin(0), Fin(0), Fin(0)>> ELSE <<Fin(0), Fin(0)>>)
    ELSE (IF pn THEN <<Fin(0), Fin(pth.v - PinTol), Fin(0)>>
          ELSE <<Fin(0), Fin(pth.v - PinTol)>>)

\* upper bounds of line 118 or 121
UpperBounds(pth, pn) ==
    IF ~Truthy(pth)
    THEN (IF pn THEN <<Fin(EtaMax), PosInf, Fin(QuarterPi)>> ELSE <<Fin(EtaMax), PosInf>>)
    ELSE (IF pn THEN <<Fin(EtaMax), Fin(pth.v + PinTol), Fin(QuarterPi)>>
          ELSE <<Fin(EtaMax), Fin(pth.v + PinTol)>>)

\* lines 116-121
SelectGuess ==
    /\ pc = "select"
    /\ UNCHANGED <<gain, page>>
    /\ initial_guess' = Some(InitialGuess(P_th[1], phase_noise[1]))
    /\ param_bounds' = Some([lb |-> LowerBounds(P_th[1], phase_noise[1]),
                             ub |-> UpperBounds(P_th[1], phase_noise[1])])
    /\ pc' = "curve_fit"
    /\ UNCHANGED <<args, err, power, sq_data, asq_data, phase_noise, omega, gamma,
                   P_th, result, eta_fit, P_th_fit, phase_noise_fit, power_fit,
                   sq_fit, asq_fit, fit_calls, solves>>

\* lb <= v <= ub
Within(v, lb, ub) ==
    /\ lb.v <= v
    /\ (ub.k = "inf" \/ v <= ub.v)

\* values of one parameter the solver is let to return: the ends of its
\* interval, its initial value and a few interior ones
Probes(i) ==
    IF i = 2 THEN {5000, 10000} ELSE {}

Candidates(i, x0, lb, ub) ==
    {v \in {lb[i].v, x0[i]} \cup (IF ub[i].k = "fin" THEN {ub[i].v} ELSE {})
           \cup Probes(i) : Within(v, lb[i], ub[i])}

\* the points of the box the solver may return
BoxPoints(x0, lb, ub) ==
    IF Len(x0) = 3
    THEN {<<a, b, c>> : a \in Candidates(1, x0, lb, ub), b \in Candidates(2, x0, lb, ub),
                        c \in Candidates(3, x0, lb, ub)}
    ELSE {<<a, b>> : a \in Candidates(1, x0, lb, ub), b \in Candidates(2, x0, lb, ub)}

\* np.zeros(2 * len(self.power)), the data the residuals are fitted to
ZeroTarget(pw) == [i \in 1..(2 * Len(pw)) |-> 0]

\* the residual vector the solver sees at the parameters x
Residuals(x) ==
    FitFunction(x, power[1], sq_data[1], asq_data[1], omega[1], gamma[1], phase_noise[1])

\* a solve that falls back to the initial guess when the solver gives up
CurveFitFallback ==
    /\ pc = "curve_fit"
    /\ UNCHANGED <<gain, page>>
    /\ solves' = solves + 1
    /\ IF gamma[1] = 0
       THEN /\ err' = Error("ZeroDivisionError", "float division by zero")
            /\ pc' = "error"
            /\ result' = result
       ELSE \/ \E x \in BoxPoints(initial_guess[1], param_bounds[1].lb, param_bounds[1].ub) :
                 /\ AllFinite(Residuals(x))
                 /\ result' = Some(x)
                 /\ pc' = "extract"
                 /\ err' = err
            \/ /\ err' = Error("RuntimeError", "Optimal parameters not found")
               /\ pc' = "extract"
               /\ result' = Some(initial_guess[1])
    /\ UNCHANGED <<args, power, sq_data, asq_data, phase_noise, omega, gamma, P_th,
                   initial_guess, param_bounds, eta_fit, P_th_fit, phase_noise_fit,
                   power_fit, sq_fit, asq_fit, fit_calls>>

\* lines 124-131, curve_fit with bounds: the first evaluation divides
\* self.omega by self.gamma; residuals that are not finite at p0 are refused;
\* otherwise the solver returns a point of the box at which the residuals
\* are finite, or gives up
CurveFit ==
    /\ pc = "curve_fit"
    /\ UNCHANGED <<gain, page>>
    /\ solves' = solves + 1
    /\ LET x0 == initial_guess[1]
           lb == param_bounds[1].lb
           ub == param_bounds[1].ub
       IN IF gamma[1] = 0
          THEN /\ err' = Error("ZeroDivisionError", "float division by zero")
               /\ pc' = "error"
               /\ result' = result
          ELSE IF ~AllFinite(Residuals(x0))
          THEN /\ err' = Error("ValueError", "Residuals are not finite in the initial point.")
               /\ pc' = "error"
               /\ result' = result
          ELSE \/ \E x \in BoxPoints(x0, lb, ub) :
                    /\ AllFinite(Residuals(x))
                    /\ result' = Some(x)
                    /\ pc' = "extract"
                    /\ err' = err
               \/ /\ err' = Error("RuntimeError", "Optimal parameters not found")
                  /\ pc' = "error"
                  /\ result' = result
    /\ UNCHANGED <<args, power, sq_data, asq_data, phase_noise, omega, gamma, P_th,
                   initial_guess, param_bounds, eta_fit, P_th_fit, phase_noise_fit,
                   power_fit, sq_fit, asq_fit, fit_calls>>

\* lines 134-138
ExtractParams ==
    /\ pc = "extract"
    /\ UNCHANGED <<gain, page>>
    /\ eta_fit' = Some(result[1][1])
    /\ P_th_fit' = Some(result[1][2])
    /\ phase_noise_fit' = IF phase_noise[1] THEN Some(result[1][3]) ELSE Some(0)
    /\ pc' = "curve"
    /\ UNCHANGED <<args, err, power, sq_data, asq_data, phase_noise, omega, gamma, P_th,
                   initial_guess, param_bounds, result, power_fit, sq_fit, asq_fit,
                   fit_calls, solves>>

\* np.linspace(start, stop, num), as numerators over the denominator num - 1
Linspace(start, stop, num) ==
    [i \in 1..num |-> start * (num - 1) + (i - 1) * (stop - start)]

\* lines 141-142
GenerateCurve ==
    /\ pc = "curve"
    /\ UNCHANGED <<gain, page>>
    /\ LET grid == Linspace(0, P_th_fit[1], NumPoints)
           m == sq_asq_model_noise(grid, NumPoints - 1, eta_fit[1], P_th_fit[1],
                                   phase_noise_fit[1], omega[1], gamma[1], phase_noise[1])
       IN /\ power_fit' = Some(grid)
          /\ sq_fit' = Some(m[1])
          /\ asq_fit' = Some(m[2])
    /\ pc' = "done"
    /\ UNCHANGED <<args, err, power, sq_data, asq_data, phase_noise, omega, gamma, P_th,
                   initial_guess, param_bounds, result, eta_fit, P_th_fit,
                   phase_noise_fit, fit_calls, solves>>

Next ==
    \/ Validate
    \/ SetThreshold
    \/ CheckLengths
    \/ SelectGuess
    \/ CurveFit
    \/ ExtractParams
    \/ GenerateCurve

Spec == Init /\ [][Next]_vars

(***************************************************************************)
(* Gain.__init__ and fit_Pth (src/gain.py).  Pump power in 1e-3 mW, V, V0,  *)
(* the gain and its logarithm in 1e-3.                                      *)
(***************************************************************************)
\* the SqEfficiency object takes no part in the other two programs
NoSqEfficiency ==
    /\ args = None /\ pc = "idle" /\ err = NoError
    /\ power = None /\ sq_data = None /\ asq_data = None
    /\ phase_noise = None /\ omega = None /\ gamma = None /\ P_th = None
    /\ initial_guess = None /\ param_bounds = None /\ result = None
    /\ eta_fit = None /\ P_th_fit = None /\ phase_noise_fit = None
    /\ power_fit = None /\ sq_fit = None /\ asq_fit = None
    /\ fit_calls = 0 /\ solves = 0

SqEfficiencyUnchanged ==
    UNCHANGED <<args, pc, err, power, sq_data, asq_data, phase_noise, omega, gamma,
                P_th, initial_guess, param_bounds, result, eta_fit, P_th_fit,
                phase_noise_fit, power_fit, sq_fit, asq_fit, fit_calls, solves>>

\* pump powers and the two series of readings offered as list entries
PumpVals == {10000, 20000}
VVals == {4000}
V0Vals == {0, 1000}

\* numpy's rule for the shapes (n,) and (m,) of an elementwise operation
Broadcastable(n, m) == n = m \/ n = 1 \/ m = 1

\* self.V / self.V0 for two arrays whose shapes broadcast
Divide(a, b) ==
    LET n == IF Len(a) = 1 THEN Len(b) ELSE Len(a)
    IN [i \in 1..n |-> FDiv(a[IF Len(a) = 1 THEN 1 ELSE i] * 1000,
                           b[IF Len(b) = 1 THEN 1 ELSE i])]

\* np.log of one element, in 1e-3
Log(x) ==
    IF x.k = "nan" THEN NaN
    ELSE IF x.k = "inf" THEN (IF x.v > 0 THEN PosInf ELSE NaN)
    ELSE IF x.v < 0 THEN NaN
    ELSE IF x.v = 0 THEN NegInf
    ELSE Fin((Log10dB(x.v) * 2303) \div 10)

GainInit ==
    /\ NoSqEfficiency
    /\ page = NoPage
    /\ \E p \in SeqsUpTo(PumpVals, MaxLen), v \in SeqsUpTo(VVals, MaxLen),
          v0 \in SeqsUpTo(V0Vals, MaxLen) :
          gain = [NoGain EXCEPT !.args = [pump_power |-> p, V |-> v, V0 |-> v0],
                                !.pc = "arrays"]

\* lines 7-9
GainArrays ==
    /\ gain.pc = "arrays"
    /\ gain' = [gain EXCEPT !.P = Some(gain.args.pump_power),
                            !.V = Some(gain.args.V),
                            !.V0 = Some(gain.args.V0),
                            !.pc = "ratio"]
    /\ SqEfficiencyUnchanged /\ UNCHANGED page

\* lines 10-11: the quotient and its logarithm are taken elementwise, which
\* numpy refuses for shapes that do not broadcast
GainRatio ==
    /\ gain.pc = "ratio"
    /\ IF Broadcastable(Len(gain.V[1]), Len(gain.V0[1]))
       THEN LET g == Divide(gain.V[1], gain.V0[1])
            IN gain' = [gain EXCEPT !.G = Some(g),
                                    !.log_G = Some([i \in 1..Len(g) |-> Log(g[i])]),
                                    !.pc = "lengths"]
       ELSE gain' = [gain EXCEPT
                        !.err = Error("ValueError",
                                      "operands could not be broadcast together"),
                        !.pc = "error"]
    /\ SqEfficiencyUnchanged /\ UNCHANGED page

\* lines 14-15
GainLengthError(nP, nV, nV0) ==
    IF nV # nV0 \/ nV # nP
    THEN Error("KeyError",
               "Pump power, alpha^2 and alpha_0^2 should have the same number of points")
    ELSE NoError

\* lines 14-18
GainCheckLengths ==
    /\ gain.pc = "lengths"
    /\ LET e == GainLengthError(Len(gain.P[1]), Len(gain.V[1]), Len(gain.V0[1]))
       IN gain' = [gain EXCEPT !.err = e,
                               !.pc = IF e = NoError THEN "fit_Pth" ELSE "error",
                               !.fits = IF e = NoError THEN @ + 1 ELSE @]
    /\ SqEfficiencyUnchanged /\ UNCHANGED page

\* initial_guess of fit_Pth
GainGuess == 40000

\* thresholds the solver is let to return
GainCandidates == {GainGuess, 20000, 25000}

\* lines 29-32, curve_fit without bounds: data that are empty or not finite
\* are refused; otherwise the solver returns a threshold or gives up
fit_Pth ==
    /\ gain.pc = "fit_Pth"
    /\ IF Len(gain.P[1]) = 0
       THEN \E t \in {"ValueError", "TypeError"} :
               gain' = [gain EXCEPT !.err = Error(t, "no data points"),
                                    !.pc = "error"]
       ELSE IF \E i \in 1..Len(gain.log_G[1]) : ~IsFinite(gain.log_G[1][i])
       THEN gain' = [gain EXCEPT
                        !.err = Error("ValueError",
                                      "array must not contain infs or NaNs"),
                        !.pc = "error"]
       ELSE \/ \E t \in GainCandidates :
                 gain' = [gain EXCEPT !.P_th_fitted = Some(t), !.pc = "done"]
            \/ gain' = [gain EXCEPT
                           !.err = Error("RuntimeError", "Optimal parameters not found"),
                           !.pc = "error"]
    /\ SqEfficiencyUnchanged /\ UNCHANGED page

GainNext ==
    \/ GainArrays
    \/ GainRatio
    \/ GainCheckLengths
    \/ fit_Pth

GainSpec == GainInit /\ [][GainNext]_vars

(***************************************************************************)
(* visibility() (src/tabs/visibility_page.py).  Intensities in 1e-2, beta   *)
(* and the visibility in 1e-3.                                              *)
(***************************************************************************)
\* float() of the texts typed into the five fields
FloatText(t) ==
    CASE t = "0.0" -> 0
      [] t = "0.01" -> 1
      [] t = "0.5" -> 50
      [] t = "0.8" -> 80

\* texts offered for the five fields, the defaults of lines 20-28 among them
PageInputs ==
    [I_1 : {"0.0", "0.5", "0.8"}, I_2 : {"0.0", "0.5", "0.8"},
     I_max : {"0.5", "0.8"}, I_min : {"0.01", "0.8"}, I_0 : {"0.0", "0.5"}]

VisInit ==
    /\ NoSqEfficiency
    /\ gain = NoGain
    /\ \E t \in PageInputs : page = [NoPage EXCEPT !.inputs = t, !.pc = "floats"]

\* lines 29-33
VisFloats ==
    /\ page.pc = "floats"
    /\ LET floor == FloatText(page.inputs.I_0)
       IN page' = [page EXCEPT !.I_0 = Some(floor),
                               !.I_min = Some(FloatText(page.inputs.I_min) - floor),
                               !.I_max = Some(FloatText(page.inputs.I_max) - floor),
                               !.I_2 = Some(FloatText(page.inputs.I_2) - floor),
                               !.I_1 = Some(FloatText(page.inputs.I_1) - floor),
                               !.pc = "beta"]
    /\ SqEfficiencyUnchanged /\ UNCHANGED gain

\* line 34, a division of two Python floats: None stands for ZeroDivisionError
Beta(i1, i2) == IF i2 = 0 THEN None ELSE Some((i1 * 1000) \div i2)

\* line 34
VisBeta ==
    /\ page.pc = "beta"
    /\ LET b == Beta(page.I_1[1], page.I_2[1])
       IN IF b = None
          THEN page' = [page EXCEPT
                           !.err = Error("ZeroDivisionError", "float division by zero"),
                           !.pc = "error"]
          ELSE page' = [page EXCEPT !.beta = b, !.pc = "checks"]
    /\ SqEfficiencyUnchanged /\ UNCHANGED gain

MsgOrder == "Your minimum interference needs to be smaller than you maximum interference"
MsgPositive == "All intensity fields minus the floor level should be positive"

\* lines 38-45
VisChecks ==
    /\ page.pc = "checks"
    /\ LET order == page.I_min[1] < page.I_max[1]
           positive == /\ page.I_1[1] >= 0 /\ page.I_2[1] >= 0
                       /\ page.I_max[1] >= 0 /\ page.I_min[1] >= 0
       IN page' = [page EXCEPT
                      !.errors = (IF order THEN {} ELSE {MsgOrder})
                                 \cup (IF positive THEN {} ELSE {MsgPositive}),
                      !.valid_input = Some(order /\ positive),
                      !.pc = "show"]
    /\ SqEfficiencyUnchanged /\ UNCHANGED gain

\* line 50, in 1e-3: None stands for the ZeroDivisionError of 2 * beta**.5 = 0
Visibility(b, imax, imin) ==
    IF b = 0 THEN None
    ELSE Some(((1000 + b) * (imax - imin) * 1000)
              \div (2 * Isqrt(b * 1000) * (imax + imin)))

\* lines 48-51
VisShow ==
    /\ page.pc = "show"
    /\ IF ~page.valid_input[1]
       THEN page' = [page EXCEPT !.pc = "done"]
       ELSE LET v == Visibility(page.beta[1], page.I_max[1], page.I_min[1])
            IN IF v = None
               THEN page' = [page EXCEPT
                                !.err = Error("ZeroDivisionError",
                                              "float division by zero"),
                                !.pc = "error"]
               ELSE page' = [page EXCEPT !.latex = v, !.pc = "done"]
    /\ SqEfficiencyUnchanged /\ UNCHANGED gain

VisNext ==
    \/ VisFloats
    \/ VisBeta
    \/ VisChecks
    \/ VisShow

VisSpec == VisInit /\ [][VisNext]_vars

(***************************************************************************)
(* Properties                                                               *)
(***************************************************************************)
\* the arguments pass the type and scalar checks of lines 28-38
PassesChecks(a) ==
    /\ ValidatedPrefix(a) = 6
    /\ (Truthy(a.P_th) => FloatParses(a.P_th))

\* the three array lengths are not all equal
LengthsDiffer(a) ==
    \/ Len(a.power.val) # Len(a.sq_data.val)
    \/ Len(a.power.val) # Len(a.asq_data.val)

\* the length checks of lines 40-45 have been passed or have raised
PastLengthCheck == pc \notin {"validate", "threshold", "lengths"}

\* C1: with arrays of unequal lengths the constructor raises KeyError and
\* fit_curve_noise is never invoked, with phase noise or without.
C1_LengthInvariant ==
    (PassesChecks(args) /\ LengthsDiffer(args)) =>
        /\ fit_calls = 0
        /\ solves = 0
        /\ (PastLengthCheck => pc = "error" /\ err.type = "KeyError")

C1_Witness ==
    /\ PassesChecks(args) /\ LengthsDiffer(args)
    /\ args.phase_noise.val = FALSE
    /\ Len(args.sq_data.val) = Len(args.asq_data.val)
    /\ pc = "error" /\ err.type = "KeyError" /\ fit_calls = 0

\* C2 as stated: with unequal lengths the error raised is always the
\* same-number-of-points one, also with phase noise and fewer than 3
\* combined points.
C2_AlwaysSameNumberMessage ==
    (PassesChecks(args) /\ LengthsDiffer(args) /\ PastLengthCheck) =>
        err = Error("KeyError", MsgSameNumber)

\* C2 amended: with unequal lengths a KeyError is raised; it is the
\* same-number-of-points one unless phase noise is on and
\* len(sq_data) + len(asq_data) < 3, where the at-least-2 error is raised.
C2_MessageByOrder ==
    (PassesChecks(args) /\ LengthsDiffer(args) /\ PastLengthCheck) =>
        err = Error("KeyError",
                    IF args.phase_noise.val
                       /\ Len(args.sq_data.val) + Len(args.asq_data.val) < 3
                    THEN MsgAtLeast2 ELSE MsgSameNumber)

C2_Witness ==
    /\ PassesChecks(args) /\ LengthsDiffer(args)
    /\ args.phase_noise.val
    /\ Len(args.sq_data.val) + Len(args.asq_data.val) < 3
    /\ err = Error("KeyError", MsgAtLeast2)

\* C3: phase noise with fewer than 3 combined points raises KeyError, no
\* phase noise with no point raises KeyError, and for arrays of equal length
\* N the fit is invoked exactly when N >= 2 with phase noise, N >= 1 without.
C3_MinimumPoints ==
    (PassesChecks(args) /\ PastLengthCheck) =>
        LET pn == args.phase_noise.val
            ns == Len(args.sq_data.val)
            na == Len(args.asq_data.val)
            np == Len(args.power.val)
        IN /\ (pn /\ ns + na < 3 => pc = "error" /\ err.type = "KeyError"
                                    /\ fit_calls = 0)
           /\ (~pn /\ ns + na < 1 => pc = "error" /\ err.type = "KeyError"
                                     /\ fit_calls = 0)
           /\ (ns = na /\ ns = np =>
                 (fit_calls = 1 <=> IF pn THEN ns >= 2 ELSE ns >= 1)
                 /\ fit_calls \in {0, 1})

C3_Witness ==
    /\ PassesChecks(args) /\ args.phase_noise.val
    /\ Len(args.sq_data.val) = 2 /\ Len(args.asq_data.val) = 2
    /\ Len(args.power.val) = 2
    /\ fit_calls = 1 /\ solves = 1

\* a threshold power was given: P_th is not the default empty string
Supplied(a) == a.P_th # StrVal("")

\* C4 as stated: whenever a threshold T is supplied the P_th box handed to the
\* optimizer is [T - 1e-3, T + 1e-3], and a successful fit returns P_th_fit
\* within 1e-3 of T.
C4_PinnedBox ==
    (PassesChecks(args) /\ Supplied(args)) =>
        LET T == FloatOf(args.P_th)
        IN /\ (param_bounds # None =>
                 /\ param_bounds[1].lb[2] = Fin(T - PinTol)
                 /\ param_bounds[1].ub[2] = Fin(T + PinTol))
           /\ (P_th_fit # None => Abs(P_th_fit[1] - T) <= PinTol)

\* C5 as stated: a supplied threshold <= 0 is rejected before the optimizer is
\* invoked, and no guess or bound box is ever chosen for it.
C5_RejectsNonPositive ==
    (PassesChecks(args) /\ Supplied(args) /\ FloatOf(args.P_th) <= 0) =>
        /\ solves = 0
        /\ initial_guess = None
        /\ param_bounds = None

\* C6 as stated: the optimizer is invoked only with detection_frequency > 0
\* and cavity_decay_rate > 0, so omega / gamma never has a zero denominator.
C6_PositiveScalars ==
    solves > 0 => omega[1] > 0 /\ gamma[1] > 0

\* powers, thresholds and efficiencies at which the forward model is compared
ModelPowers == {0, 1, 2500, 9999, 10000, 49999}
ModelThresholds == {1, 5000, 10000, 50000}
ModelEtas == {0, 800, 1000}

\* C7: for every power strictly below P_th the forward model with the
\* phase-noise flag off returns the same (sq_dB, asq_dB) as with the flag on
\* and phase angle 0; in particular a curve generated with the flag on and a
\* fitted angle of 0 is the curve the flag-off model gives.
C7_ModelConsistency ==
    (pc \in {"curve", "done"}) =>
        /\ \A p \in ModelPowers, t \in ModelThresholds, e \in ModelEtas :
             p < t => ModelPoint(p, 1, e, t, 0, omega[1], gamma[1], FALSE)
                      = ModelPoint(p, 1, e, t, 0, omega[1], gamma[1], TRUE)
        /\ (pc = "done" /\ phase_noise[1] /\ phase_noise_fit[1] = 0 /\ P_th_fit[1] > 0) =>
             \A i \in 1..(NumPoints - 1) :
                <<sq_fit[1][i], asq_fit[1][i]>>
                = ModelPoint(power_fit[1][i], NumPoints - 1, eta_fit[1], P_th_fit[1],
                             0, omega[1], gamma[1], FALSE)

C7_Witness ==
    /\ pc = "done" /\ phase_noise[1] /\ phase_noise_fit[1] = 0
    /\ P_th_fit[1] > 0 /\ eta_fit[1] > 0
    /\ IsFinite(sq_fit[1][2]) /\ sq_fit[1][2].v < 0
    /\ IsFinite(asq_fit[1][2]) /\ asq_fit[1][2].v > 0

\* C8 as stated: every fitted parameter set has eta in [0, 1], P_th > 0 and a
\* phase angle in [0, pi/4], the angle being 0 when phase noise is off.
C8_ParameterRanges ==
    P_th_fit # None =>
        /\ eta_fit[1] >= 0 /\ eta_fit[1] <= EtaMax
        /\ P_th_fit[1] > 0
        /\ phase_noise_fit[1] >= 0 /\ phase_noise_fit[1] <= QuarterPi
        /\ (~phase_noise[1] => phase_noise_fit[1] = 0)

\* C9 as stated, for a threshold pinned to a positive value: after a
\* successful fit every observed power is strictly below P_th_fit.
C9_ThresholdAboveData ==
    (P_th_fit # None /\ Truthy(P_th[1]) /\ P_th[1].v > 0) =>
        \A i \in 1..Len(power[1]) : power[1][i] < P_th_fit[1]

\* C9 amended: P_th_fit is only held inside the box handed to the optimizer,
\* within 1e-3 of self.P_th when that is non-zero and >= 0 otherwise, and the
\* curve spans 0 .. P_th_fit; the observed powers do not constrain it.
C9_ThresholdInBox ==
    P_th_fit # None =>
        /\ IF Truthy(P_th[1]) THEN Abs(P_th_fit[1] - P_th[1].v) <= PinTol
           ELSE P_th_fit[1] >= 0
        /\ (pc = "done" =>
              /\ power_fit[1][1] = 0
              /\ power_fit[1][NumPoints] = P_th_fit[1] * (NumPoints - 1))

C9_Witness ==
    /\ pc = "done" /\ Truthy(P_th[1]) /\ P_th[1].v > 0
    /\ \E i \in 1..Len(power[1]) : power[1][i] > P_th_fit[1]
    /\ power_fit[1][NumPoints] = P_th_fit[1] * (NumPoints - 1)

\* C10 as stated: after a successful fit the grid starts at 0, ends at
\* P_th_fit and is strictly increasing, and the sq and asq curves have the
\* grid's length, each value the forward model at its grid point.
C10_CurveGrid ==
    pc = "done" =>
        /\ Len(power_fit[1]) = NumPoints
        /\ power_fit[1][1] = 0
        /\ power_fit[1][NumPoints] = P_th_fit[1] * (NumPoints - 1)
        /\ \A i \in 1..(NumPoints - 1) : power_fit[1][i] < power_fit[1][i + 1]
        /\ Len(sq_fit[1]) = NumPoints /\ Len(asq_fit[1]) = NumPoints
        /\ \A i \in 1..NumPoints :
              <<sq_fit[1][i], asq_fit[1][i]>>
              = ModelPoint(power_fit[1][i], NumPoints - 1, eta_fit[1], P_th_fit[1],
                           phase_noise_fit[1], omega[1], gamma[1], phase_noise[1])

\* nothing of a fit is set on the object
NothingFitted ==
    /\ result = None /\ eta_fit = None /\ P_th_fit = None /\ phase_noise_fit = None
    /\ power_fit = None /\ sq_fit = None /\ asq_fit = None

\* the state part of C11
SingleSolveState ==
    /\ solves \in {0, 1} /\ fit_calls \in {0, 1} /\ solves <= fit_calls
    /\ (fit_calls = 1 => power # None /\ gamma # None /\ P_th # None /\ PastLengthCheck)
    /\ (solves = 1 => initial_guess # None /\ param_bounds # None)
    /\ (result # None => solves = 1 /\ err = NoError)
    /\ (eta_fit # None => result # None)
    /\ (power_fit # None <=> pc = "done")
    /\ (power_fit # None => eta_fit # None /\ sq_fit # None /\ asq_fit # None)
    /\ (err # NoError <=> pc = "error")
    /\ (pc = "error" => NothingFitted)

\* the step part of C11: an error ends the run, and a guess, a result or a
\* curve once set is never replaced
SingleSolveStep ==
    /\ (pc = "error" => UNCHANGED vars)
    /\ (pc = "done" => UNCHANGED vars)
    /\ (initial_guess # None => initial_guess' = initial_guess)
    /\ (result # None => result' = result)
    /\ (power_fit # None => power_fit' = power_fit)
    /\ (err' # err => err = NoError /\ NothingFitted')

\* C11: a run makes at most one solve, in the order validate, fit, curve; the
\* curve is generated once and only after a successful solve; a failed
\* validation or solve ends the run with its error, without a retry or
\* another guess, and leaves no fitted parameter or curve on the object.
C11_SingleSolve == []SingleSolveState /\ [][SingleSolveStep]_vars

C11_Witness ==
    /\ pc = "error" /\ err.type = "RuntimeError" /\ solves = 1
    /\ initial_guess # None /\ NothingFitted

\* C13 as stated, for the default P_th: the last point of the generated curve,
\* evaluated at power = P_th_fit, has a non-finite antisqueezing value for
\* every accepted detection frequency and decay rate.
C13_PoleAtThreshold ==
    (pc = "done" /\ ~Supplied(args)) => ~IsFinite(asq_fit[1][NumPoints])

\* C13 amended: at power = P_th the denominator of asq_lin is
\* (omega / gamma)**2, so the antisqueezing value there, and the last point of
\* the generated curve, is non-finite exactly when the detection frequency
\* is 0 and finite for every detection frequency > 0.
C13_PoleOnlyAtZeroFrequency ==
    (pc \in {"curve", "done"}) =>
        /\ \A t \in ModelThresholds, e \in ModelEtas, f \in BOOLEAN :
              IsFinite(ModelPoint(t, 1, e, t, 0, omega[1], gamma[1], f)[2])
              <=> omega[1] # 0
        /\ (pc = "done" => (IsFinite(asq_fit[1][NumPoints]) <=> omega[1] # 0))

C13_Witness ==
    /\ pc = "done" /\ ~Supplied(args) /\ omega[1] = 0
    /\ eta_fit[1] > 0 /\ P_th_fit[1] > 0
    /\ asq_fit[1][NumPoints] = PosInf
    /\ IsFinite(asq_fit[1][NumPoints - 1])

\* C14 as stated: eta0 = 0.8 in [0, 1]; P_th0 = 50 in [0, inf) when no threshold
\* is supplied, else P_th0 = T in [T - 1e-3, T + 1e-3]; eps0 = 0.2 in
\* [0, pi/4] only with phase noise; guess, lower and upper bounds have the
\* arity of the residual variant called, 3 with phase noise and 2 without.
C14_GuessAndBounds ==
    (PassesChecks(args) /\ initial_guess # None) =>
        LET x0 == initial_guess[1]
            lb == param_bounds[1].lb
            ub == param_bounds[1].ub
            n == IF phase_noise[1] THEN 3 ELSE 2
            T == FloatOf(args.P_th)
        IN /\ Len(x0) = n /\ Len(lb) = n /\ Len(ub) = n
           /\ x0[1] = Eta0 /\ lb[1] = Fin(0) /\ ub[1] = Fin(EtaMax)
           /\ IF Supplied(args)
              THEN x0[2] = T /\ lb[2] = Fin(T - PinTol) /\ ub[2] = Fin(T + PinTol)
              ELSE x0[2] = Pth0 /\ lb[2] = Fin(0) /\ ub[2] = PosInf
           /\ (phase_noise[1] =>
                 x0[3] = Eps0 /\ lb[3] = Fin(0) /\ ub[3] = Fin(QuarterPi))

\* C15: whenever curve_fit is invoked (gamma # 0, so the residual function can
\* be evaluated), the residual vector at the initial guess and at every point
\* of the box has length 2N with N = len(power), the length of the all-zero
\* target; its first N entries are the squeezing model minus sq_data, its last
\* N the antisqueezing model minus asq_data; and the 2-parameter variant is
\* the 3-parameter vector with epsilon = 0.
C15_ResidualLayout ==
    (pc = "curve_fit" /\ gamma[1] # 0) =>
        LET N == Len(power[1])
            pw == power[1]
        IN \A x \in BoxPoints(initial_guess[1], param_bounds[1].lb, param_bounds[1].ub)
                    \cup {initial_guess[1]} :
              LET r == Residuals(x)
                  eps == IF phase_noise[1] THEN x[3] ELSE 0
                  m == sq_asq_model_noise(pw, 1, x[1], x[2], eps,
                                          omega[1], gamma[1], phase_noise[1])
              IN /\ Len(r) = 2 * N
                 /\ Len(r) = Len(ZeroTarget(pw))
                 /\ \A i \in 1..N :
                       /\ r[i] = FSub(m[1][i], sq_data[1][i])
                       /\ r[N + i] = FSub(m[2][i], asq_data[1][i])
                 /\ (~phase_noise[1] =>
                       r = combined_residuals_noise(<<x[1], x[2], 0>>, pw,
                               sq_data[1], asq_data[1], omega[1], gamma[1], FALSE))

C15_Witness ==
    /\ pc = "curve_fit" /\ ~Supplied(args) /\ gamma[1] > 0 /\ Len(power[1]) = MaxLen
    /\ Len(Residuals(initial_guess[1])) = 2 * MaxLen
    /\ AllFinite(Residuals(initial_guess[1]))
    /\ Residuals(initial_guess[1])[1] # Residuals(initial_guess[1])[MaxLen + 1]

\* C16: for eta in [0, 1], power >= 0, P_th > 0, detection frequency > 0 and
\* decay rate > 0 (power >= P_th included), 1 - eta <= sq_lin <= 1 and
\* asq_lin >= 1, so without phase noise sq_dB <= 0 <= asq_dB and the logarithm
\* never gets a negative argument; at power = 0 both are exactly 0 dB.  The
\* same holds along the curve of a fit without phase noise.
C16_LinearBounds ==
    (pc \in {"curve", "done"} /\ omega[1] > 0 /\ gamma[1] > 0) =>
        /\ \A p \in ModelPowers, t \in ModelThresholds \ {1}, e \in ModelEtas :
              LET c == Coupling(p, 1, t)
                  sq == SqLin(c, e, omega[1], gamma[1])
                  asq == AsqLin(c, e, omega[1], gamma[1])
                  db == ModelPoint(p, 1, e, t, 0, omega[1], gamma[1], FALSE)
              IN /\ IsFinite(sq) /\ IsFinite(asq)
                 /\ 1000 - e <= sq.v /\ sq.v <= 1000 /\ asq.v >= 1000
                 /\ IsFinite(db[1]) /\ IsFinite(db[2])
                 /\ db[1].v <= 0 /\ db[2].v >= 0
                 /\ (p = 0 => db[1] = Fin(0) /\ db[2] = Fin(0))
        /\ (pc = "done" /\ ~phase_noise[1] /\ P_th_fit[1] > 0
              /\ eta_fit[1] \in 0..EtaMax) =>
              /\ sq_fit[1][1] = Fin(0) /\ asq_fit[1][1] = Fin(0)
              /\ \A i \in 1..NumPoints :
                    /\ IsFinite(sq_fit[1][i]) /\ sq_fit[1][i].v <= 0
                    /\ IsFinite(asq_fit[1][i]) /\ asq_fit[1][i].v >= 0

C16_Witness ==
    /\ pc = "done" /\ ~Supplied(args) /\ ~phase_noise[1]
    /\ omega[1] > 0 /\ gamma[1] > 0 /\ P_th_fit[1] > 0 /\ eta_fit[1] > 0
    /\ sq_fit[1][1] = Fin(0) /\ asq_fit[1][1] = Fin(0)
    /\ sq_fit[1][NumPoints].v < 0 /\ asq_fit[1][NumPoints].v > 0

\* C17 as stated: when the lengths of pump_power, V and V0 are not all equal,
\* Gain.__init__ fails with the same-number-of-points KeyError, and it does
\* so before V / V0 and its logarithm are computed; fit_Pth is invoked only
\* when the three lengths are equal.
C17_GainLengthsFirst ==
    LET a == gain.args
        mismatch == Len(a.V) # Len(a.V0) \/ Len(a.V) # Len(a.pump_power)
    IN /\ (mismatch /\ gain.pc = "error") => gain.err.type = "KeyError"
       /\ mismatch => (gain.G = None /\ gain.log_G = None)
       /\ mismatch => gain.pc \in {"arrays", "ratio", "lengths", "error"}
       /\ gain.fits > 0 => ~mismatch

\* C18 as stated: for numeric inputs the page ends with a validation error or
\* a visibility value and never with an exception, and beta = I_1 / I_2 is
\* evaluated only for I_2 - I_0 # 0, a zero denominator being left to the
\* range checks.
C18_PageNeverFails ==
    /\ page.err = NoError
    /\ page.pc # "error"
    /\ page.pc = "done" => (page.errors # {} \/ page.latex # None)
    /\ (page.I_2 # None /\ page.I_2[1] = 0 /\ page.pc \in {"show", "done"}) =>
          page.errors # {}

====
